---- MODULE Spec2Model ----
(***************************************************************************)
(* Cattle_Trading.py: yearly COT archives are downloaded and extracted     *)
(* into ./cot_data, every .txt of that directory is read and combined, the *)
(* LIVE CATTLE rows are dated, sorted and given rolling z-scores, and the  *)
(* last 14 months are plotted.                                             *)
(*                                                                         *)
(* Spec         the script, run any number of times over one ./cot_data    *)
(* SpecZScore   compute_zscore applied to bounded series and windows       *)
(* SpecRecency  the 14-month cutoff and filter applied to bounded indexes  *)
(***************************************************************************)
EXTENDS Integers, Sequences, FiniteSets, Bags, TLC

\* ------------------------------------------------------------- bounds
\* Number of years in range(start_year, end_year + 1).
NumYears == 2
\* Longest series handed to compute_zscore in SpecZScore.
MaxLen == 4
\* Largest position value in those series.
MaxVal == 2
\* Largest window besides window_size in SpecZScore.
MaxWindow == 3
\* Largest DatetimeIndex in SpecRecency.
MaxDates == 3

\* ------------------------------------------------- program constants
start_year == 2010
end_year == start_year + NumYears - 1
window_size == 26
recency_months == 14

Years == start_year..end_year

\* numpy.nan in an integer-valued field of a row.
NaN == -1
\* pandas.NaT in a Date.
NaT == 0

VARIABLES
    published,    \* year -> the records the CFTC publishes for that year
    fs,           \* ./cot_data: file name -> year whose bytes the file holds
    pc,           \* position of the script
    year,         \* loop variable of download_and_extract_cot_data
    outcome,      \* year -> how this run's fetch of that year ended
    loaded,       \* files process_data_for_all_years appended to all_data
    skipped,      \* files whose read_csv raised
    cot_data,     \* the combined DataFrame
    cattle_df,    \* the LIVE CATTLE DataFrame
    dropped,      \* before_drop - after_drop, as printed
    filtered_df,  \* the rows of the last 14 months
    rendered,     \* plt.show() was reached
    exit_code,    \* the interpreter's exit status, -1 while running
    z_in, z_out,  \* SpecZScore: argument and result of compute_zscore
    r_in, r_out   \* SpecRecency: index and result of the recency filter

scriptVars == <<published, fs, pc, year, outcome, loaded, skipped,
                cot_data, cattle_df, dropped, filtered_df, rendered, exit_code>>
vars == <<scriptVars, z_in, z_out, r_in, r_out>>

\* ------------------------------------------------------- file names
zip_path(y) == [stem |-> "cot", year |-> y, ext |-> "zip"]
expected_file(y) == [stem |-> "com_disagg_txt", year |-> y, ext |-> "txt"]
c_year_txt == [stem |-> "c_year", year |-> 0, ext |-> "txt"]
\* Line 43 without the year in the name: one name for every year.
new_filename_shared(y) == [stem |-> "cot", year |-> start_year, ext |-> "txt"]
\* Line 43: f"cot_{year}.txt".
new_filename(y) == [stem |-> "cot", year |-> y, ext |-> "txt"]

\* The inner names the resolver looks for in the archive of year y; file_list
\* is the set of those the archive holds.
InnerNames(y) == {expected_file(y), c_year_txt}

\* ------------------------------------------------------ file system
Exists(dir, f) == f \in DOMAIN dir
WriteFile(dir, f, bytes) ==
    [g \in DOMAIN dir \cup {f} |-> IF g = f THEN bytes ELSE dir[g]]
RemoveFile(dir, f) == [g \in DOMAIN dir \ {f} |-> dir[g]]
\* os.rename(src, dst) where it succeeds.
Rename(dir, src, dst) == RemoveFile(WriteFile(dir, dst, dir[src]), src)
\* os.rename raises when dst exists on Windows and replaces it on POSIX.
RenameMayRaise(dir, dst) == Exists(dir, dst)

\* ------------------------------------------- download_and_extract
\* No year of this run has been fetched, or the loader has taken over: the
\* outcomes are the download loop's.
NoOutcome == [y \in Years |-> "none"]

\* One fetch: requests.get raises, answers with a status other than 200, or
\* answers 200 with a body that is a zip listing file_list or is no zip.
Responses(y) ==
    {[kind |-> "raise", status |-> 0, zip |-> FALSE, file_list |-> {}]}
    \cup {[kind |-> "response", status |-> 404, zip |-> FALSE, file_list |-> {}]}
    \cup {[kind |-> "response", status |-> 200, zip |-> FALSE, file_list |-> {}]}
    \cup {[kind |-> "response", status |-> 200, zip |-> TRUE, file_list |-> l] :
             l \in SUBSET InnerNames(y)}

ArchiveOutcome(resp) ==
    IF resp.kind = "raise" THEN "TransportError"
    ELSE IF resp.status = 200 THEN "Retrieved" ELSE "Unavailable"

\* Lines 36-48: the files of the directory after the archive of year y is resolved.
\* renameRaises: os.rename raised, so c_year.txt stays where z.extract put it.
Resolve(dir, y, file_list, renameRaises) ==
    IF expected_file(y) \in file_list
    THEN WriteFile(dir, expected_file(y), y)
    ELSE IF c_year_txt \in file_list
    THEN LET extracted == WriteFile(dir, c_year_txt, y)
         IN  IF renameRaises THEN extracted
             ELSE Rename(extracted, c_year_txt, new_filename(y))
    ELSE dir

\* Lines 25-27: the directory after a 200 response is saved to zip_path.
SaveZip(dir, y, resp) ==
    IF ArchiveOutcome(resp) = "Retrieved" THEN WriteFile(dir, zip_path(y), y) ELSE dir

\* Lines 50-53: what the loop does after a year that was not retrieved.
\* (Leaving the script instead, as an uncaught exception would.)
AfterFailedYearAbort(y) == "done"
AfterFailedYear(y) == "download"

\* One iteration of the for loop, lines 18-53.
Download ==
    /\ pc = "download"
    /\ year <= end_year
    /\ \E resp \in Responses(year), renameRaises \in BOOLEAN :
        LET saved == SaveZip(fs, year, resp)
            resolves == ArchiveOutcome(resp) = "Retrieved" /\ resp.zip
        IN  /\ renameRaises =>
                 /\ resolves
                 /\ expected_file(year) \notin resp.file_list
                 /\ c_year_txt \in resp.file_list
                 /\ RenameMayRaise(saved, new_filename(year))
            /\ fs' = IF resolves
                     THEN Resolve(saved, year, resp.file_list, renameRaises)
                     ELSE saved
            /\ outcome' = [outcome EXCEPT ![year] = ArchiveOutcome(resp)]
            /\ pc' = IF ArchiveOutcome(resp) = "Retrieved" THEN "download"
                     ELSE AfterFailedYear(year)
    /\ year' = year + 1
    /\ UNCHANGED <<published, loaded, skipped, cot_data, cattle_df, dropped,
                   filtered_df, rendered, exit_code, z_in, z_out, r_in, r_out>>

\* ------------------------------------------------------- record files
\* Column names of the record files.
NameCol == "Market_and_Exchange_Names"
YYMMDDCol == "As_of_Date_In_Form_YYMMDD"
AsOfCol == "As_of_Date"
long_col == "M_Money_Positions_Long_All"
short_col == "M_Money_Positions_Short_All"
IntColumns == {YYMMDDCol, long_col, short_col}

\* An instrument name is its words; a missing name has none.
commodity_name == <<"LIVE CATTLE", "-", "CHICAGO MERCANTILE EXCHANGE">>
feeder_name == <<"FEEDER CATTLE", "-", "CHICAGO MERCANTILE EXCHANGE">>
NoName == <<>>
\* A value of As_of_Date is <<year, month, day>>, or words that are no date.
NoAsOf == <<>>
NotADate == <<"N/A">>

Row(name, yymmdd, asof, long, short) ==
    [Market_and_Exchange_Names |-> name,
     As_of_Date_In_Form_YYMMDD |-> yymmdd,
     As_of_Date |-> asof,
     M_Money_Positions_Long_All |-> long,
     M_Money_Positions_Short_All |-> short]

\* The YYMMDD number of a day of year y.
YYMMDD(y, m, d) == (y % 100) * 10000 + m * 100 + d

\* What a year's record file may hold.
VariantNames ==
    {"weekly", "asof", "other", "garbled", "nodates", "baddates", "nopos", "nonames"}
VariantsOf(y) ==
    IF (y - start_year) % 2 = 0
    THEN {"weekly", "asof", "garbled", "nodates"}
    ELSE {"weekly", "other", "baddates", "nopos", "nonames"}

FileColumns(variant) ==
    CASE variant = "weekly"   -> {NameCol, YYMMDDCol, long_col, short_col}
      [] variant = "asof"     -> {NameCol, AsOfCol, long_col, short_col}
      [] variant = "other"    -> {NameCol, YYMMDDCol, long_col, short_col}
      [] variant = "nodates"  -> {NameCol, long_col, short_col}
      [] variant = "baddates" -> {NameCol, YYMMDDCol, long_col, short_col}
      [] variant = "nopos"    -> {NameCol, YYMMDDCol}
      [] variant = "nonames"  -> {YYMMDDCol, long_col, short_col}
      [] OTHER                -> {}

\* The rows of the file, in the file's order. A field of a column the file
\* lacks is NaN (NoName, NoAsOf), as pd.concat leaves it.
FileRows(variant, y) ==
    CASE variant = "weekly" ->
            << Row(commodity_name, YYMMDD(y, 6, 8), NoAsOf, 5, 1),
               Row(feeder_name, YYMMDD(y, 1, 5), NoAsOf, 7, 7),
               Row(commodity_name, YYMMDD(y, 13, 45), NoAsOf, 4, 2),
               Row(commodity_name, YYMMDD(y, 1, 5), NoAsOf, 3, 1) >>
      [] variant = "asof" ->
            << Row(commodity_name, NaN, <<y, 2, 9>>, 2, 4),
               Row(commodity_name, NaN, NotADate, 1, 1),
               Row(commodity_name, NaN, <<y, 1, 5>>, 6, 0) >>
      [] variant = "other" ->
            << Row(feeder_name, YYMMDD(y, 1, 5), NoAsOf, 7, 7),
               Row(NoName, YYMMDD(y, 1, 12), NoAsOf, 1, 1) >>
      [] variant = "nodates" ->
            << Row(commodity_name, NaN, NoAsOf, 2, 2),
               Row(commodity_name, NaN, NoAsOf, 3, 1) >>
      [] variant = "baddates" ->
            << Row(commodity_name, YYMMDD(y, 13, 1), NoAsOf, 2, 2),
               Row(commodity_name, YYMMDD(y, 2, 30), NoAsOf, 3, 1) >>
      [] variant = "nopos" ->
            << Row(commodity_name, YYMMDD(y, 3, 2), NoAsOf, NaN, NaN),
               Row(commodity_name, YYMMDD(y, 1, 5), NoAsOf, NaN, NaN) >>
      [] variant = "nonames" ->
            << Row(NoName, YYMMDD(y, 1, 5), NoAsOf, 1, 2) >>
      [] OTHER -> << >>

\* --------------------------------------------------------- DataFrames
\* A DataFrame is its columns, its rows and the integer columns that hold a
\* NaN and so are float64. The rows are a bag until sort_values orders them:
\* os.listdir returns the files in arbitrary order.
SeqToBag(s) == BagOfAll(LAMBDA i : s[i], SetToBag(1..Len(s)))
Float64Cols(columns, rows) ==
    {c \in IntColumns \cap columns : \E r \in BagToSet(rows) : r[c] = NaN}
DataFrame(columns, rows) ==
    [columns |-> columns, rows |-> rows, float64 |-> Float64Cols(columns, rows)]
EmptyDataFrame == DataFrame({}, EmptyBag)
\* DataFrame.empty: an axis of length 0.
IsEmpty(df) == df.columns = {} \/ df.rows = EmptyBag

\* pd.read_csv of a file holding the records of year y.
ParserRaises(y) == published[y] = "garbled"
read_csv(y) == DataFrame(FileColumns(published[y]), SeqToBag(FileRows(published[y], y)))

RECURSIVE concat(_)
\* pd.concat(all_data, ignore_index=True) of the frames of a set of files.
concat(frames) ==
    IF frames = {} THEN EmptyDataFrame
    ELSE LET f == CHOOSE g \in frames : TRUE
             rest == concat(frames \ {f})
             df == read_csv(fs[f])
         IN  DataFrame(df.columns \cup rest.columns, df.rows (+) rest.rows)

\* Line 59.
extracted_files(dir) == {f \in DOMAIN dir : f.ext = "txt"}

\* all_data: the files whose read_csv did not raise (lines 65-72).
\* (With the try around the whole loop, one file that does not parse would
\* leave all_data empty.)
all_data_abort(files) ==
    IF \E f \in files : ParserRaises(fs[f]) THEN {} ELSE files
all_data(files) == {f \in files : ~ParserRaises(fs[f])}

\* exit() and the end of the script both leave the interpreter with status 0.
exit_status == 0
end_status == 0

\* Lines 91-107: process_data_for_all_years and the two checks after it.
Load ==
    /\ pc = "download"
    /\ year > end_year
    /\ LET files == extracted_files(fs)
       IN  /\ loaded' = all_data(files)
           /\ skipped' = files \ all_data(files)
           /\ cot_data' = concat(all_data(files))
    /\ IF IsEmpty(cot_data') \/ NameCol \notin cot_data'.columns
       THEN pc' = "done" /\ exit_code' = exit_status
       ELSE pc' = "filter" /\ UNCHANGED exit_code
    /\ UNCHANGED <<published, fs, year, outcome, cattle_df, dropped,
                   filtered_df, rendered, z_in, z_out, r_in, r_out>>

\* str.contains(commodity_name, na=False) of one name.
Contains(name, sub) ==
    \E i \in 1..(Len(name) - Len(sub) + 1) : SubSeq(name, i, i + Len(sub) - 1) = sub
IsTarget(r) == Contains(r[NameCol], commodity_name)

\* The rows of a bag that are in the set keep, as many times as they occur.
SubBagOn(rows, keep) == [r \in BagToSet(rows) \cap keep |-> rows[r]]

\* Line 118: the rows of the target instrument; columns and dtypes are kept.
FilterCommodity(df) ==
    [columns |-> df.columns, rows |-> SubBagOn(df.rows, {r \in BagToSet(df.rows) : IsTarget(r)}),
     float64 |-> df.float64]

\* Lines 114-127.
Filter ==
    /\ pc = "filter"
    /\ cattle_df' = FilterCommodity(cot_data)
    /\ IF IsEmpty(cattle_df')
       THEN pc' = "done" /\ exit_code' = exit_status
       ELSE pc' = "dates" /\ UNCHANGED exit_code
    /\ outcome' = NoOutcome    \* the fetch outcomes are not kept past the loader
    /\ UNCHANGED <<published, fs, year, loaded, skipped,
                   cot_data, dropped, filtered_df, rendered, z_in, z_out, r_in, r_out>>

\* ------------------------------------------------------------- dates
\* A Date is the number yyyymmdd of a valid day, or NaT.
IsLeap(y) == (y % 4 = 0 /\ y % 100 # 0) \/ y % 400 = 0
DaysInMonth(y, m) ==
    IF m = 2 THEN (IF IsLeap(y) THEN 29 ELSE 28)
    ELSE IF m \in {4, 6, 9, 11} THEN 30 ELSE 31
MakeDate(y, m, d) ==
    IF m \in 1..12 /\ d \in 1..DaysInMonth(y, m) THEN y * 10000 + m * 100 + d ELSE NaT
DateYear(t) == t \div 10000
DateMonth(t) == (t \div 100) % 100
DateDay(t) == t % 100

\* Series.astype(str) of one value of the YYMMDD column: an int64 column
\* prints its digits, a float64 column prints them with ".0", NaN prints "nan".
astype_str(v, isFloat) ==
    [digits |-> v, suffix |-> IF v = NaN THEN "nan" ELSE IF isFloat THEN ".0" ELSE ""]

\* pd.to_datetime(text, format='%y%m%d', errors='coerce') of six digits:
\* anything after the day, a month or a day that does not exist, give NaT.
\* %y below 69 is a year of this century.
to_datetime_yymmdd(text) ==
    IF text.suffix # "" \/ text.digits < 100000 \/ text.digits > 999999 THEN NaT
    ELSE LET yy == text.digits \div 10000
             y == IF yy < 69 THEN 2000 + yy ELSE 1900 + yy
         IN  MakeDate(y, (text.digits \div 100) % 100, text.digits % 100)

\* pd.to_datetime(value, errors='coerce') of one value of As_of_Date.
to_datetime(value) ==
    IF Len(value) = 3 THEN MakeDate(value[1], value[2], value[3]) ELSE NaT

WithField(r, name, v) == [f \in DOMAIN r \cup {name} |-> IF f = name THEN v ELSE r[f]]

\* Lines 134-146: the Date of a row under the convention the columns select.
date_col(columns) ==
    IF YYMMDDCol \in columns THEN YYMMDDCol
    ELSE IF AsOfCol \in columns THEN AsOfCol ELSE "none"
ParseDate(df, r) ==
    IF date_col(df.columns) = YYMMDDCol
    THEN to_datetime_yymmdd(astype_str(r[YYMMDDCol], YYMMDDCol \in df.float64))
    ELSE to_datetime(r[AsOfCol])

\* Line 153: dropna(subset=['Date']).
\* (Without the dropna every row stays.)
dropna_keep_all(rows) == rows
dropna(rows) == SubBagOn(rows, {r \in BagToSet(rows) : r.Date # NaT})

RECURSIVE Ordered(_, _)
\* Every order of the rows of a bag by Date, ascending or descending; rows of
\* equal Date come in any order (the default sort is not stable).
Ordered(rows, ascending) ==
    IF rows = EmptyBag THEN {<< >>}
    ELSE LET S == BagToSet(rows)
             first == {r \in S : \A q \in S :
                          IF ascending THEN r.Date <= q.Date ELSE r.Date >= q.Date}
         IN  UNION {{<<r>> \o s : s \in Ordered(rows (-) SetToBag({r}), ascending)} :
                      r \in first}

\* Line 163: sort_values('Date', ascending=True).
sort_values(rows) == Ordered(rows, TRUE)

\* Lines 134-163.
ResolveDates ==
    /\ pc = "dates"
    /\ IF date_col(cattle_df.columns) = "none"
       THEN /\ pc' = "done"
            /\ exit_code' = exit_status
            /\ UNCHANGED <<cattle_df, dropped>>
       ELSE LET dated == BagOfAll(LAMBDA r : WithField(r, "Date", ParseDate(cattle_df, r)),
                                  cattle_df.rows)
                kept == dropna(dated)
            IN  /\ dropped' = BagCardinality(dated) - BagCardinality(kept)
                /\ \E sorted \in sort_values(kept) :
                      cattle_df' = [columns |-> cattle_df.columns \cup {"Date"},
                                    rows |-> sorted,
                                    float64 |-> cattle_df.float64]
                /\ pc' = "zscore"
                /\ UNCHANGED exit_code
    /\ UNCHANGED <<published, fs, year, outcome, loaded, skipped,
                   cot_data, filtered_df, rendered, z_in, z_out, r_in, r_out>>

\* ---------------------------------------------------- compute_zscore
Max(a, b) == IF a >= b THEN a ELSE b
Min(a, b) == IF a <= b THEN a ELSE b
Sign(x) == IF x > 0 THEN 1 ELSE IF x < 0 THEN -1 ELSE 0
RECURSIVE GCD(_, _)
GCD(a, b) == IF b = 0 THEN a ELSE GCD(b, a % b)
RECURSIVE SumSeq(_)
SumSeq(s) == IF s = << >> THEN 0 ELSE Head(s) + SumSeq(Tail(s))
Squares(s) == [i \in 1..Len(s) |-> s[i] * s[i]]

\* rolling(window=window, min_periods=1) at row i: the rows from
\* max(1, i - window + 1) to i, of which the NaN ones are not observations.
WindowStart(i, window) == Max(1, i - window + 1)
Observations(series, window, i) ==
    SelectSeq(SubSeq(series, WindowStart(i, window), i), LAMBDA v : v # NaN)

\* .mean(): num/den, NaN with no observation.
rolling_mean(series, window, i) ==
    LET obs == Observations(series, window, i)
    IN  IF Len(obs) < 1 THEN [nan |-> TRUE, num |-> 0, den |-> 1]
        ELSE [nan |-> FALSE, num |-> SumSeq(obs), den |-> Len(obs)]

\* .std() squared: the sample variance (ddof=1) num/den, NaN with fewer than
\* two observations.
rolling_var(series, window, i) ==
    LET obs == Observations(series, window, i)
        n == Len(obs)
        S == SumSeq(obs)
    IN  IF n < 2 THEN [nan |-> TRUE, num |-> 0, den |-> 1]
        ELSE [nan |-> FALSE, num |-> n * SumSeq(Squares(obs)) - S * S, den |-> n * (n - 1)]

\* A z-score is NaN, an infinity of a sign, or the number of that sign whose
\* square is num/den in lowest terms.
ZNaN == [kind |-> "nan", sign |-> 0, num |-> 0, den |-> 1]
ZNum(sign, n, d) ==
    [kind |-> "num", sign |-> sign, num |-> n \div GCD(n, d), den |-> d \div GCD(n, d)]

\* Line 180: (x - mean) / std in float arithmetic: NaN in gives NaN out, 0/0
\* is NaN and anything else over 0 is an infinity.
\* (A division guarded against a zero std would give 0 instead.)
QuotientZeroWhenFlat(x, mean, var) ==
    IF x = NaN \/ mean.nan \/ var.nan THEN ZNaN
    ELSE IF var.num = 0 THEN ZNum(0, 0, 1)
    ELSE ZNum(Sign(x * mean.den - mean.num),
              (x * mean.den - mean.num) * (x * mean.den - mean.num) * var.den,
              mean.den * mean.den * var.num)
Quotient(x, mean, var) ==
    IF x = NaN \/ mean.nan \/ var.nan THEN ZNaN
    ELSE IF var.num = 0
    THEN (IF x * mean.den - mean.num = 0 THEN ZNaN
          ELSE [kind |-> "inf", sign |-> Sign(x * mean.den - mean.num),
                num |-> 0, den |-> 1])
    ELSE ZNum(Sign(x * mean.den - mean.num),
              (x * mean.den - mean.num) * (x * mean.den - mean.num) * var.den,
              mean.den * mean.den * var.num)

\* Lines 177-180.
compute_zscore(series, window) ==
    [i \in 1..Len(series) |->
        Quotient(series[i], rolling_mean(series, window, i), rolling_var(series, window, i))]

Column(rows, col) == [i \in 1..Len(rows) |-> rows[i][col]]

\* Lines 165-198.
ZScores ==
    /\ pc = "zscore"
    /\ IF {long_col, short_col} \subseteq cattle_df.columns
       THEN LET zl == compute_zscore(Column(cattle_df.rows, long_col), window_size)
                zs == compute_zscore(Column(cattle_df.rows, short_col), window_size)
            IN  /\ cattle_df' =
                     [columns |-> cattle_df.columns \cup {"ZScore_Long", "ZScore_Short"},
                      rows |-> [i \in 1..Len(cattle_df.rows) |->
                                  WithField(WithField(cattle_df.rows[i], "ZScore_Long", zl[i]),
                                            "ZScore_Short", zs[i])],
                      float64 |-> cattle_df.float64]
                /\ pc' = "recency"
                /\ UNCHANGED exit_code
       ELSE /\ pc' = "done"
            /\ exit_code' = exit_status
            /\ UNCHANGED cattle_df
    /\ UNCHANGED <<published, fs, year, outcome, loaded, skipped,
                   cot_data, dropped, filtered_df, rendered, z_in, z_out, r_in, r_out>>

\* ---------------------------------------------------- recency window
\* Line 205: index.max(), NaT for an empty index.
index_max(rows) ==
    IF Len(rows) = 0 THEN NaT
    ELSE CHOOSE t \in {rows[i].Date : i \in 1..Len(rows)} :
            \A i \in 1..Len(rows) : rows[i].Date <= t

\* Timestamp - pd.DateOffset(months=k): the same day k months earlier, or the
\* last day of that month when it has no such day; NaT stays NaT.
MinusMonths(t, k) ==
    IF t = NaT THEN NaT
    ELSE LET total == DateYear(t) * 12 + (DateMonth(t) - 1) - k
             y == total \div 12
             m == (total % 12) + 1
         IN  y * 10000 + m * 100 + Min(DateDay(t), DaysInMonth(y, m))

\* Line 209.
\* (Month arithmetic that keeps the day as it is names days that do not exist.)
cutoff_date_unclamped(max_date) ==
    IF max_date = NaT THEN NaT
    ELSE LET total == DateYear(max_date) * 12 + (DateMonth(max_date) - 1) - recency_months
         IN  (total \div 12) * 10000 + ((total % 12) + 1) * 100 + DateDay(max_date)
cutoff_date(max_date) == MinusMonths(max_date, recency_months)

\* index >= cutoff_date: no comparison with NaT is true.
AtOrAfter(t, cutoff) == t # NaT /\ cutoff # NaT /\ t >= cutoff

\* Line 213.
recent(rows) ==
    SelectSeq(rows, LAMBDA r : AtOrAfter(r.Date, cutoff_date(index_max(rows))))

\* Lines 215-217: the plot is drawn unless filtered_df.empty.
\* (Without the check of filtered_df.empty the plot is always drawn.)
PlotsAlways(df) == TRUE
Plots(df) == ~(df.columns = {} \/ Len(df.rows) = 0)

\* Lines 205-226, and the end of the script.
Recency ==
    /\ pc = "recency"
    /\ filtered_df' = [columns |-> cattle_df.columns, rows |-> recent(cattle_df.rows),
                       float64 |-> cattle_df.float64]
    /\ rendered' = Plots(filtered_df')
    /\ pc' = "done"
    /\ exit_code' = end_status
    /\ UNCHANGED <<published, fs, year, outcome, loaded, skipped,
                   cot_data, cattle_df, dropped, z_in, z_out, r_in, r_out>>

\* --------------------------------------------------------- the script
NoFiles == [f \in {} |-> 0]

Start ==
    /\ pc = "download"
    /\ year = start_year
    /\ outcome = NoOutcome
    /\ loaded = {}
    /\ skipped = {}
    /\ cot_data = EmptyDataFrame
    /\ cattle_df = EmptyDataFrame
    /\ dropped = 0
    /\ filtered_df = EmptyDataFrame
    /\ rendered = FALSE
    /\ exit_code = -1

\* The script is run again over the directory the last run left.
Rerun ==
    /\ pc = "done"
    /\ pc' = "download"
    /\ year' = start_year
    /\ outcome' = NoOutcome
    /\ loaded' = {}
    /\ skipped' = {}
    /\ cot_data' = EmptyDataFrame
    /\ cattle_df' = EmptyDataFrame
    /\ dropped' = 0
    /\ filtered_df' = EmptyDataFrame
    /\ rendered' = FALSE
    /\ exit_code' = -1
    /\ UNCHANGED <<published, fs, z_in, z_out, r_in, r_out>>

\* Line 15 creates ./cot_data; the first run finds it empty.
Init ==
    /\ published \in {p \in [Years -> VariantNames] : \A y \in Years : p[y] \in VariantsOf(y)}
    /\ fs = NoFiles
    /\ Start
    /\ z_in = << >> /\ z_out = << >>
    /\ r_in = << >> /\ r_out = << >>

Next == Download \/ Load \/ Filter \/ ResolveDates \/ ZScores \/ Recency \/ Rerun

Spec == Init /\ [][Next]_vars

\* ------------------------------------------- compute_zscore on its own
ZValues == (0..MaxVal) \cup {NaN}
ZSeries == UNION {[1..n -> ZValues] : n \in 1..MaxLen}
ZWindows == (1..MaxWindow) \cup {window_size}

\* The script has not started and the directory is empty.
Idle ==
    /\ published = [y \in Years |-> "weekly"]
    /\ fs = NoFiles
    /\ Start

InitZScore ==
    /\ Idle
    /\ z_in \in [series : ZSeries, window : ZWindows]
    /\ z_out = << >>
    /\ r_in = << >> /\ r_out = << >>

ApplyZScore ==
    /\ z_out = << >>
    /\ z_out' = compute_zscore(z_in.series, z_in.window)
    /\ UNCHANGED <<scriptVars, z_in, r_in, r_out>>

SpecZScore == InitZScore /\ [][ApplyZScore]_vars

\* ----------------------------------------- the recency window on its own
DatePool ==
    {20240315, 20230114, 20230115, 20230116, 20240430, 20230228, 20230301,
     20250430, 20240229, 20240228, 20240131, 20221130, 20221201}
\* The date-sorted indexes of at most MaxDates of these dates.
Indexes ==
    UNION {sort_values(SetToBag({[Date |-> d] : d \in S})) :
              S \in {T \in SUBSET DatePool : Cardinality(T) \in 1..MaxDates}}

InitRecency ==
    /\ Idle
    /\ r_in \in Indexes
    /\ r_out = << >>
    /\ z_in = << >> /\ z_out = << >>

ApplyRecency ==
    /\ r_out = << >>
    /\ r_out' = [cutoff |-> cutoff_date(index_max(r_in)), rows |-> recent(r_in)]
    /\ UNCHANGED <<scriptVars, z_in, z_out, r_in>>

SpecRecency == InitRecency /\ [][ApplyRecency]_vars

\* ============================================================ claims
RECURSIVE SumOver(_, _)
\* The sum of f over a finite set.
SumOver(S, f) ==
    IF S = {} THEN 0
    ELSE LET x == CHOOSE e \in S : TRUE IN f[x] + SumOver(S \ {x}, f)

\* -------------------------------------------------------------- C8
\* The observations of the trailing window of row i: the rows among the last
\* min(i, W) ending at i (rows counted from 1) that hold a value.
C8_Window(i) ==
    {j \in (i - Min(i, z_in.window) + 1)..i : z_in.series[j] # NaN}
C8_RowOk(i) ==
    LET obs == C8_Window(i)
        n == Cardinality(obs)
        S == SumOver(obs, z_in.series)
        SS == SumOver(obs, [j \in obs |-> z_in.series[j] * z_in.series[j]])
        x == z_in.series[i]
        flat == \A j, k \in obs : z_in.series[j] = z_in.series[k]
        z == z_out[i]
    IN  IF n <= 1 \/ flat \/ x = NaN
        THEN z.kind = "nan"
        ELSE /\ z.kind = "num"
             /\ z.sign = Sign(n * x - S)
             /\ z.num * n * (n * SS - S * S) = z.den * (n * x - S) * (n * x - S) * (n - 1)

\* C8: at every row the z-score is computed over the last min(i+1, W)
\* observations ending at that row; it is undefined (NaN, never zero or
\* another number) when that window holds a single observation or only
\* identical values, and otherwise it is the number
\* (value - trailing mean) / trailing sample standard deviation.
C8_ZScoreOfTrailingWindow ==
    z_out # << >> =>
        /\ Len(z_out) = Len(z_in.series)
        /\ \A i \in 1..Len(z_out) : C8_RowOk(i)

\* A window of two or more rows has filled with identical values, after a row
\* whose z-score is a number.
C8_Witness ==
    /\ z_out # << >>
    /\ z_in.window >= 2
    /\ \E i \in 1..Len(z_out) :
          /\ i > z_in.window
          /\ \A j \in (i - z_in.window + 1)..i : z_in.series[j] = z_in.series[i]
          /\ z_in.series[i] # NaN
          /\ z_out[i].kind = "nan"
          /\ z_out[i - 1].kind = "num"

\* -------------------------------------------------------------- C9
C9_Dates == {r_in[i].Date : i \in 1..Len(r_in)}
C9_Max == CHOOSE t \in C9_Dates : \A d \in C9_Dates : d <= t
C9_MonthNumber(t) == DateYear(t) * 12 + DateMonth(t)

\* C9: the cutoff is maxDate minus 14 calendar months, on the same day of
\* the month or on that month's last day when it has no such day, and the
\* rows selected are exactly those dated on or after the cutoff; for
\* maxDate 2024-03-15 the cutoff is 2023-01-15, a row of 2023-01-14 is
\* excluded and a row of 2023-01-15 is included.
C9_CutoffFourteenMonths ==
    r_out # << >> =>
        /\ C9_MonthNumber(C9_Max) - C9_MonthNumber(r_out.cutoff) = 14
        /\ DateDay(r_out.cutoff) =
              Min(DateDay(C9_Max),
                  DaysInMonth(DateYear(r_out.cutoff), DateMonth(r_out.cutoff)))
        /\ {r_out.rows[i].Date : i \in 1..Len(r_out.rows)} =
              {d \in C9_Dates : d >= r_out.cutoff}
        /\ Len(r_out.rows) = Cardinality({d \in C9_Dates : d >= r_out.cutoff})
        /\ C9_Max = 20240315 =>
              /\ r_out.cutoff = 20230115
              /\ \A i \in 1..Len(r_out.rows) : r_out.rows[i].Date # 20230114
              /\ 20230115 \in C9_Dates =>
                    \E i \in 1..Len(r_out.rows) : r_out.rows[i].Date = 20230115

\* The index of the example: the day before the cutoff is left out and the
\* day of the cutoff is kept.
C9_Witness ==
    /\ r_out # << >>
    /\ C9_Dates = {20230114, 20230115, 20240315}
    /\ r_out.cutoff = 20230115
    /\ Len(r_out.rows) = 2

\* -------------------------------------------------------------- C1
FailedOutcomes == {"Unavailable", "TransportError"}
\* The .txt files of a directory, with what each holds.
TxtFiles(dir) == [f \in extracted_files(dir) |-> dir[f]]
\* The step in which year y is fetched and the fetch fails.
C1_FailedFetch(y) == outcome[y] = "none" /\ outcome'[y] \in FailedOutcomes

\* C1: the iteration of a year whose fetch answers with a status other than
\* 200 or raises creates and renames no .txt file, and the loop goes on with
\* the next year; when the loader has run, every year has been fetched,
\* whatever failed.
C1_FailedYearIsSkipped ==
    /\ [][\A y \in Years :
            C1_FailedFetch(y) =>
                /\ TxtFiles(fs') = TxtFiles(fs)
                /\ pc' = "download"
                /\ year' = y + 1]_vars
    /\ [](pc = "filter" => \A y \in Years : outcome[y] # "none")

\* A year failed, a later year was retrieved, and the loader combined the
\* later year's file although the failed year left none.
C1_Witness ==
    /\ pc = "filter"
    /\ \E y1, y2 \in Years :
          /\ y1 < y2
          /\ outcome[y1] \in FailedOutcomes
          /\ outcome[y2] = "Retrieved"
          /\ \A f \in extracted_files(fs) : fs[f] = y2
          /\ loaded # {}

\* -------------------------------------------------------------- C2
\* The record files the resolver leaves for year y.
ResolvedNames(y) == {expected_file(y), new_filename(y)}

C3_OneFilePerYear ==
    (pc = "download" /\ year > end_year) =>
        /\ \A f \in extracted_files(fs) : \E y \in Years : f \in ResolvedNames(y) /\ fs[f] = y
        /\ \A f, g \in extracted_files(fs) : fs[f] = fs[g] => f = g

\* -------------------------------------------------------- C4 and C5
\* The terminal conditions, read off the combined data of the run.
NoDataLoaded == loaded = {} \/ cot_data.rows = EmptyBag
NoTargetRow == ~\E r \in BagToSet(cot_data.rows) : IsTarget(r)
NoDateColumn == YYMMDDCol \notin cot_data.columns /\ AsOfCol \notin cot_data.columns
NoRowSurvivesParsing ==
    ~\E r \in BagToSet(cot_data.rows) : IsTarget(r) /\ ParseDate(cot_data, r) # NaT
NoRowInWindow == Len(filtered_df.rows) = 0
TerminalCondition ==
    NoDataLoaded \/ NoTargetRow \/ NoDateColumn \/ NoRowSurvivesParsing \/ NoRowInWindow

\* C4: a run in which no data is loaded, no row matches the instrument,
\* neither date column exists, no row survives date parsing or no row is
\* left in the recency window never reaches the plot.
C4_TerminalRunsDoNotPlot ==
    rendered => ~TerminalCondition

\* A run ended without the plot because every date of the instrument's rows
\* failed to parse: the one condition the script has no check of its own for.
C4_Witness ==
    /\ pc = "done"
    /\ ~rendered
    /\ ~NoDataLoaded /\ ~NoTargetRow /\ ~NoDateColumn
    /\ NoRowSurvivesParsing
    /\ exit_code = end_status

\* C5: the exit status of a run that ended in a terminal condition differs
\* from the exit status of a run that reached the plot.
C5_TerminalExitDiffers ==
    (pc = "done" /\ TerminalCondition) => exit_code # end_status

\* -------------------------------------------------------------- C6
\* C6: where compute_zscore is applied, every row's Date is strictly greater
\* than the Date of the row before it.
C6_StrictlySorted ==
    pc = "zscore" =>
        \A i \in 2..Len(cattle_df.rows) : cattle_df.rows[i - 1].Date < cattle_df.rows[i].Date

\* -------------------------------------------------------------- C7
\* The number of rows of the record file f.
C7_FileRowCount(f) == Len(FileRows(published[fs[f]], fs[f]))
\* The loader has run in this run; the directory is as the loader found it.
C7_AfterLoad == pc \in {"filter", "dates", "zscore", "recency", "done"}

\* C7: the loader reads every .txt file of the directory, whatever this run
\* retrieved; the files that fail to parse are skipped, all others are in the
\* combined data with every row they hold, and the run ends with 'no data',
\* without a plot, when no file parsed.
C7_LoaderReadsEveryTxt ==
    C7_AfterLoad =>
        /\ loaded \cup skipped = {f \in DOMAIN fs : f.ext = "txt"}
        /\ skipped = {f \in DOMAIN fs : f.ext = "txt" /\ published[fs[f]] = "garbled"}
        /\ loaded \cap skipped = {}
        /\ BagCardinality(cot_data.rows) =
              SumOver(loaded, [f \in loaded |-> C7_FileRowCount(f)])
        /\ loaded = {} =>
              /\ pc = "done"
              /\ exit_code = exit_status
              /\ ~rendered
              /\ cattle_df = EmptyDataFrame

\* This run retrieved nothing; the loader skipped a file that does not parse
\* and combined a file an earlier run left.
C7_Witness ==
    /\ pc = "filter"
    /\ \A y \in Years : outcome[y] \in FailedOutcomes
    /\ skipped # {}
    /\ loaded # {}

\* ------------------------------------------------------------- C10
\* The rows of the instrument in the combined data, as many times as they
\* occur, and those of them whose date does not parse.
C10_RowsBefore ==
    BagCardinality(SubBagOn(cot_data.rows, {r \in BagToSet(cot_data.rows) : IsTarget(r)}))
C10_Unparsable ==
    BagCardinality(SubBagOn(cot_data.rows,
                            {r \in BagToSet(cot_data.rows) :
                                IsTarget(r) /\ ParseDate(cot_data, r) = NaT}))

\* C10: after date resolution no row has a null Date, the reported count is
\* the number of rows whose date failed to parse, and
\* rows_after = rows_before - dropped_count.
C10_UnparsableRowsDropped ==
    pc = "zscore" =>
        /\ \A i \in 1..Len(cattle_df.rows) : cattle_df.rows[i].Date # NaT
        /\ dropped = C10_Unparsable
        /\ Len(cattle_df.rows) = C10_RowsBefore - dropped

\* Some rows were dropped and some were kept.
C10_Witness ==
    /\ pc = "zscore"
    /\ dropped > 0
    /\ Len(cattle_df.rows) > 0

====
